---------------------------- MODULE Spec2Model ----------------------------
(***************************************************************************)
(* A model of goban.js: the Board (get/set, noLibs flood fill, capture),   *)
(* the Game (turn, capture tallies, undo/redo stacks) and the click        *)
(* handlers installed by goban().  Rendering (the draw and erase methods)   *)
(* and the document text are left out; the enabled state of the undo and   *)
(* redo buttons is kept.  The handlers run noLibs as one step; its loop is *)
(* also modelled one iteration at a time, for the claims about the loop.   *)
(***************************************************************************)
EXTENDS Integers, Sequences, FiniteSets

\* Board.size.  The source constructs a 19x19 board; the model plays on a
\* smaller one.
Size == 3
\* Spec: the longest undo stack, the most stones on the board and the
\* highest capture tally a step may lead to.
MaxHist == 1
MaxStones == 1
MaxTally == 1
\* SpecPlay: the longest undo stack.
MaxPlayHist == 4
\* SpecSetup: the longest undo stack, and the corner triangle x + y <= SetupSpan
\* on which the position is set up.
MaxSetupHist == 1
SetupSpan == 4
\* SpecEdit: the longest undo stack, the most stones on the board and the
\* highest capture tally.
MaxEditHist == 2
MaxEditStones == 2
MaxEditTally == 0
\* SpecCount: the longest undo stack, the highest sum of the two tallies a
\* "+" button may lead to, and the corner x + y <= CountSpan the canvas is
\* clicked in.
MaxCountHist == 3
MaxCount == 1
CountSpan == 3
\* SpecFillFair: the most empty positions on the board.
MaxFairEmpty == 1
\* SpecBoard: the largest board size and the most stones on the board.
MaxBoardSize == 3
MaxBoardStones == 2

\* Player enum, and the two non-player values a board read can give.
B == "B"
W == "W"
Null == "null"
Undefined == "undefined"
Players == {B, W}

\* Mode and Edit enums.
PLAY == "PLAY"
EDIT == "EDIT"
ADD == "ADD"
SUB == "SUB"

VARIABLES
    size,       \* Board.size
    state,      \* Board.state: cell index -> B, W or Null
    turn,       \* Game.turn
    mode,       \* Game.mode
    editMode,   \* Game.editMode
    captured,   \* Game.captured: player -> tally
    undoSt,     \* Game.undoSt: sequence of move records
    redoSt,     \* Game.redoSt
    undoBtn,    \* whether the "undo" button is enabled
    redoBtn,    \* whether the "redo" button is enabled
    last,       \* the last handler that changed the game (rejected clicks and
                \* undo/redo on an empty stack change nothing and leave it)
    snap,       \* board and tallies as left by the last handler other than
                \* undo and redo that changed either
    base,       \* board as left by construction or by the last free edit
    fill        \* the noLibs() call in progress, for the loop taken one
                \* iteration at a time: its locals and where it stands

vars == <<size, state, turn, mode, editMode, captured, undoSt, redoSt,
          undoBtn, redoBtn, last, snap, base, fill>>

\* new Point(x, y)
Point(x, y) == [x |-> x, y |-> y]

\* Board positions, and the positions pxCoord can return for a click on the
\* canvas (the margin rounds to 0 and to Size + 1).
Points == {Point(x, y) : x \in 1..Size, y \in 1..Size}
Clicks == {Point(x, y) : x \in 0..(Size + 1), y \in 0..(Size + 1)}

Index(p) == (p.y - 1) * size + (p.x - 1)

EmptyBoard == [i \in 0..(Size * Size - 1) |-> Null]

Other(player) == IF player = B THEN W ELSE B

\* get() that reads the grid whatever the position.
getUnchecked(s, p) == IF Index(p) \in DOMAIN s THEN s[Index(p)] ELSE Null

get(s, p) ==
    IF p.x < 1 \/ p.x > size THEN Undefined
    ELSE IF p.y < 1 \/ p.y > size THEN Undefined
    ELSE s[Index(p)]

\* set() that checks the column only and writes the cell whatever the row.
setNoRowCheck(s, p, val) ==
    IF p.x < 1 \/ p.x > size THEN s
    ELSE [i \in DOMAIN s \cup {Index(p)} |-> IF i = Index(p) THEN val ELSE s[i]]

\* The value set(p, val) returns; no caller uses it.
setValue(p, val) ==
    IF p.x < 1 \/ p.x > size THEN Undefined
    ELSE IF p.y < 1 \/ p.y > size THEN Undefined
    ELSE val

\* The board after set(p, val).
set(s, p, val) ==
    IF p.x < 1 \/ p.x > size THEN s
    ELSE IF p.y < 1 \/ p.y > size THEN s
    ELSE [s EXCEPT ![Index(p)] = val]

\* The scans without their look to the east.
NeighboursNoEast(p) ==
    (IF p.y > 1 THEN <<Point(p.x, p.y - 1)>> ELSE <<>>) \o
    (IF p.x > 1 THEN <<Point(p.x - 1, p.y)>> ELSE <<>>) \o
    (IF p.y < size THEN <<Point(p.x, p.y + 1)>> ELSE <<>>)

\* The neighbours the scans of noLibs and capture look at, in their order:
\* north, west, south, east, each only when inside the board.
Neighbours(p) ==
    (IF p.y > 1 THEN <<Point(p.x, p.y - 1)>> ELSE <<>>) \o
    (IF p.x > 1 THEN <<Point(p.x - 1, p.y)>> ELSE <<>>) \o
    (IF p.y < size THEN <<Point(p.x, p.y + 1)>> ELSE <<>>) \o
    (IF p.x < size THEN <<Point(p.x + 1, p.y)>> ELSE <<>>)

\* The while loop of noLibs: stack, visited and conn as in the source.
RECURSIVE noLibsLoop(_, _, _, _, _)
noLibsLoop(s, player, stack, visited, conn) ==
    IF Len(stack) = 0 THEN conn
    ELSE
        LET curr == stack[Len(stack)]
            rest == SubSeq(stack, 1, Len(stack) - 1)
            i == Index(curr)
            nbrs == Neighbours(curr)
        IN  IF i \in visited THEN noLibsLoop(s, player, rest, visited, conn)
            ELSE IF \E k \in 1..Len(nbrs) : get(s, nbrs[k]) = Null THEN <<>>
            ELSE noLibsLoop(s, player,
                            rest \o SelectSeq(nbrs, LAMBDA np : get(s, np) = player),
                            visited \cup {i}, Append(conn, curr))

noLibs(s, p) == noLibsLoop(s, get(s, p), <<p>>, {}, <<>>)

\* The loop of noLibs with the test of visited left out.
noLibsStepRevisits(s, f) ==
    IF Len(f.stack) = 0 THEN [f EXCEPT !.pc = "done", !.ret = f.conn]
    ELSE
        LET curr == f.stack[Len(f.stack)]
            rest == SubSeq(f.stack, 1, Len(f.stack) - 1)
            nbrs == Neighbours(curr)
            nulls == {k \in 1..Len(nbrs) : get(s, nbrs[k]) = Null}
            pushed == SelectSeq(nbrs, LAMBDA np : get(s, np) = f.player)
        IN  IF nulls # {} THEN [f EXCEPT !.pc = "done", !.ret = <<>>]
            ELSE [f EXCEPT !.stack = rest \o pushed,
                           !.visited = @ \cup {Index(curr)},
                           !.conn = Append(@, curr)]

\* One pass of the loop of noLibs from its top, on the locals f of the call:
\* leave with conn when the stack is empty; else pop, skip a visited position,
\* mark and collect a new one, then scan north, west, south, east, leaving
\* with [] at the first empty neighbour and pushing the player's own stones
\* met before it.
noLibsStep(s, f) ==
    IF Len(f.stack) = 0 THEN [f EXCEPT !.pc = "done", !.ret = f.conn]
    ELSE
        LET curr == f.stack[Len(f.stack)]
            rest == SubSeq(f.stack, 1, Len(f.stack) - 1)
            i == Index(curr)
            nbrs == Neighbours(curr)
            nulls == {k \in 1..Len(nbrs) : get(s, nbrs[k]) = Null}
            upto == IF nulls = {} THEN Len(nbrs)
                    ELSE (CHOOSE k \in nulls : \A j \in nulls : k <= j) - 1
            pushed == SelectSeq(SubSeq(nbrs, 1, upto),
                                LAMBDA np : get(s, np) = f.player)
            marked == [f EXCEPT !.stack = rest \o pushed,
                                !.visited = @ \cup {i},
                                !.conn = Append(@, curr)]
        IN  IF i \in f.visited THEN [f EXCEPT !.stack = rest]
            ELSE IF nulls # {} THEN [marked EXCEPT !.pc = "done", !.ret = <<>>]
            ELSE marked

\* res.reduce((acc, curr) => acc.concat(curr), [])
RECURSIVE Concat(_)
Concat(seqs) ==
    IF Len(seqs) = 0 THEN <<>>
    ELSE Concat(SubSeq(seqs, 1, Len(seqs) - 1)) \o seqs[Len(seqs)]

\* capture() looking only north and west of the stone.
captureNorthWest(s, p) ==
    LET player == get(s, p)
        res == SelectSeq((IF p.y > 1 THEN <<Point(p.x, p.y - 1)>> ELSE <<>>) \o
                         (IF p.x > 1 THEN <<Point(p.x - 1, p.y)>> ELSE <<>>),
                         LAMBDA np : get(s, np) # Null /\ get(s, np) # player)
    IN  Concat([k \in 1..Len(res) |-> noLibs(s, res[k])])

capture(s, p) ==
    LET player == get(s, p)
        res == SelectSeq(Neighbours(p),
                         LAMBDA np : get(s, np) # Null /\ get(s, np) # player)
    IN  Concat([k \in 1..Len(res) |-> noLibs(s, res[k])])

\* forEach(cp => board.set(cp, val)) over a list of positions.
RECURSIVE setAll(_, _, _)
setAll(s, ps, val) ==
    IF Len(ps) = 0 THEN s
    ELSE setAll(set(s, ps[1], val), SubSeq(ps, 2, Len(ps)), val)


\* The fields of Game and Board the handlers read and write, as one record.
Game == [state |-> state, turn |-> turn, mode |-> mode, editMode |-> editMode,
         captured |-> captured, undoSt |-> undoSt, redoSt |-> redoSt,
         undoBtn |-> undoBtn, redoBtn |-> redoBtn]

nextTurn(g) == [g EXCEPT !.turn = IF g.turn = B THEN W ELSE B]

\* redo() without the hand-over of the turn at its end.
redoKeepsTurn(g) ==
    IF Len(g.redoSt) = 0 THEN g
    ELSE
        LET mv == g.redoSt[Len(g.redoSt)]
            popped == SubSeq(g.redoSt, 1, Len(g.redoSt) - 1)
        IN  [g EXCEPT
                !.redoSt = popped,
                !.state = setAll(set(g.state, mv.p, mv.player), mv.captured, Null),
                !.captured[mv.player] = @ + Len(mv.captured),
                !.undoSt = Append(g.undoSt, mv),
                !.undoBtn = TRUE,
                !.redoBtn = IF Len(popped) = 0 THEN FALSE ELSE @]

redo(g) ==
    IF Len(g.redoSt) = 0 THEN g
    ELSE
        LET mv == g.redoSt[Len(g.redoSt)]
            popped == SubSeq(g.redoSt, 1, Len(g.redoSt) - 1)
        IN  nextTurn([g EXCEPT
                !.redoSt = popped,
                !.state = setAll(set(g.state, mv.p, mv.player), mv.captured, Null),
                !.captured[mv.player] = @ + Len(mv.captured),
                !.undoSt = Append(g.undoSt, mv),
                !.undoBtn = TRUE,
                !.redoBtn = IF Len(popped) = 0 THEN FALSE ELSE @])

\* The body of undo() with the tally left as it is.
undoKeepsTally(g) ==
    LET mv == g.undoSt[Len(g.undoSt)]
        popped == SubSeq(g.undoSt, 1, Len(g.undoSt) - 1)
        enemy == IF mv.player = B THEN W ELSE B
    IN  nextTurn([g EXCEPT
            !.undoSt = popped,
            !.state = setAll(set(g.state, mv.p, Null), mv.captured, enemy),
            !.redoSt = Append(g.redoSt, mv),
            !.redoBtn = TRUE,
            !.undoBtn = IF Len(popped) = 0 THEN FALSE ELSE @])

\* The body of undo() with the move's own stone left on the board.
undoLeavesStone(g) ==
    LET mv == g.undoSt[Len(g.undoSt)]
        popped == SubSeq(g.undoSt, 1, Len(g.undoSt) - 1)
        enemy == IF mv.player = B THEN W ELSE B
    IN  nextTurn([g EXCEPT
            !.undoSt = popped,
            !.state = setAll(g.state, mv.captured, enemy),
            !.captured[mv.player] = @ - Len(mv.captured),
            !.redoSt = Append(g.redoSt, mv),
            !.redoBtn = TRUE,
            !.undoBtn = IF Len(popped) = 0 THEN FALSE ELSE @])

\* The body of undo() that never switches the undo button off.
undoLeavesButton(g) ==
    LET mv == g.undoSt[Len(g.undoSt)]
        popped == SubSeq(g.undoSt, 1, Len(g.undoSt) - 1)
        enemy == IF mv.player = B THEN W ELSE B
    IN  nextTurn([g EXCEPT
            !.undoSt = popped,
            !.state = setAll(set(g.state, mv.p, Null), mv.captured, enemy),
            !.captured[mv.player] = @ - Len(mv.captured),
            !.redoSt = Append(g.redoSt, mv),
            !.redoBtn = TRUE])

\* undo() past its early return: the most recent move is reverted.
undoMove(g) ==
    LET mv == g.undoSt[Len(g.undoSt)]
        popped == SubSeq(g.undoSt, 1, Len(g.undoSt) - 1)
        enemy == IF mv.player = B THEN W ELSE B
    IN  nextTurn([g EXCEPT
            !.undoSt = popped,
            !.state = setAll(set(g.state, mv.p, Null), mv.captured, enemy),
            !.captured[mv.player] = @ - Len(mv.captured),
            !.redoSt = Append(g.redoSt, mv),
            !.redoBtn = TRUE,
            !.undoBtn = IF Len(popped) = 0 THEN FALSE ELSE @])

\* undo() that hands the turn over even when there is nothing to undo.
undoTurnsOnEmpty(g) == IF Len(g.undoSt) = 0 THEN nextTurn(g) ELSE undoMove(g)

undo(g) == IF Len(g.undoSt) = 0 THEN g ELSE undoMove(g)

\* clearHist() that forgets the redo stack.
clearHistKeepsRedo(g) == [g EXCEPT !.undoSt = <<>>, !.undoBtn = FALSE]

clearHist(g) ==
    [g EXCEPT !.undoSt = <<>>, !.redoSt = <<>>, !.undoBtn = FALSE, !.redoBtn = FALSE]

\* The play branch without a suicide test.
suicideOff(s, p, cap) == FALSE

\* The suicide test without the look at the captures.
suicideIgnoresCaptures(s, p, cap) == Len(noLibs(s, p)) # 0

\* The suicide test of the play branch: s is the board with the stone placed.
suicide(s, p, cap) == Len(cap) = 0 /\ Len(noLibs(s, p)) # 0

\* The play branch without a ko test.
koOff(g, p, cap) == FALSE

\* The ko test comparing only the new stone with the last capture.
koHalfCompared(g, p, cap) ==
    /\ Len(cap) = 1
    /\ Len(g.undoSt) > 0
    /\ Len(g.undoSt[Len(g.undoSt)].captured) = 1
    /\ LET lm == g.undoSt[Len(g.undoSt)]
           lcp == lm.captured[1]
       IN  p.x = lcp.x /\ p.y = lcp.y

\* The ko test of the play branch.
ko(g, p, cap) ==
    /\ Len(cap) = 1
    /\ Len(g.undoSt) > 0
    /\ Len(g.undoSt[Len(g.undoSt)].captured) = 1
    /\ LET lm == g.undoSt[Len(g.undoSt)]
           lcp == lm.captured[1]
           cp == cap[1]
       IN  p.x = lcp.x /\ p.y = lcp.y /\ cp.x = lm.p.x /\ cp.y = lm.p.y

\* A rejected move that leaves its stone on the board.
rollbackForgotten(s, p) == s

\* game.board.set(p, null) before the return of a rejected move.
rollback(s, p) == set(s, p, Null)

\* The new move pushed on the redo stack as it is, not on an emptied one.
recordKeepsRedo(g, p, cap) ==
    redo([g EXCEPT !.redoSt = Append(@, [player |-> g.turn, p |-> p, captured |-> cap])])

\* The end of the play branch: the redo stack is replaced by the new move
\* alone and redo() applies it.
record(g, p, cap) ==
    redo([g EXCEPT !.redoSt = <<[player |-> g.turn, p |-> p, captured |-> cap]>>])

\* The play branch of the canvas click handler: the game after the click,
\* and which way the handler left.
playClick(g, p) ==
    IF get(g.state, p) = Null
    THEN LET s == set(g.state, p, g.turn)
             cap == capture(s, p)
         IN  IF suicide(s, p, cap)
             THEN [g |-> [g EXCEPT !.state = rollback(s, p)], out |-> "suicide"]
             ELSE IF ko([g EXCEPT !.state = s], p, cap)
             THEN [g |-> [g EXCEPT !.state = rollback(s, p)], out |-> "ko"]
             ELSE [g |-> record([g EXCEPT !.state = s], p, cap), out |-> "accepted"]
    ELSE [g |-> g, out |-> "occupied"]

\* The edit branch of the canvas click handler.
editClick(g, p) ==
    clearHist([g EXCEPT !.state = IF g.editMode = ADD THEN set(g.state, p, g.turn)
                                   ELSE set(g.state, p, Null)])

Stones(s) == Cardinality({i \in DOMAIN s : s[i] # Null})

Assign(g) ==
    /\ state' = g.state
    /\ turn' = g.turn
    /\ mode' = g.mode
    /\ editMode' = g.editMode
    /\ captured' = g.captured
    /\ undoSt' = g.undoSt
    /\ redoSt' = g.redoSt
    /\ undoBtn' = g.undoBtn
    /\ redoBtn' = g.redoBtn

\* No noLibs() call in progress.
FillIdle ==
    [pc |-> "idle", p |-> Point(0, 0), player |-> Null, stack |-> <<>>,
     visited |-> {}, conn |-> <<>>, ret |-> <<>>]

Init ==
    /\ size = Size
    /\ state = EmptyBoard
    /\ turn = B
    /\ mode = PLAY
    /\ editMode = ADD
    /\ captured = [pl \in Players |-> 0]
    /\ undoSt = <<>>
    /\ redoSt = <<>>
    /\ undoBtn = FALSE
    /\ redoBtn = FALSE
    /\ last = "new"
    /\ snap = [state |-> EmptyBoard, captured |-> [pl \in Players |-> 0]]
    /\ base = EmptyBoard
    /\ fill = FillIdle

\* canvas click at p in play mode
PlayClick(p) ==
    /\ mode = PLAY
    /\ LET r == playClick(Game, p)
       IN  /\ Assign(r.g)
           /\ last' = IF r.out = "accepted"
                      THEN (IF Len(redoSt) > 0 THEN "branched" ELSE "accepted")
                      ELSE last
           /\ snap' = IF r.out = "accepted"
                      THEN [state |-> r.g.state, captured |-> r.g.captured]
                      ELSE snap
    /\ UNCHANGED base
    /\ UNCHANGED <<size, fill>>

\* canvas click at p in edit mode
EditClick(p) ==
    /\ mode = EDIT
    /\ LET g == editClick(Game, p)
       IN  /\ Assign(g)
           /\ base' = g.state
           /\ snap' = [state |-> g.state, captured |-> g.captured]
    /\ last' = "edit"
    /\ UNCHANGED <<size, fill>>

UndoClick ==
    /\ Assign(undo(Game))
    /\ last' = IF Len(undoSt) = 0 THEN last ELSE "undo"
    /\ UNCHANGED <<snap, base>>
    /\ UNCHANGED <<size, fill>>

RedoClick ==
    /\ Assign(redo(Game))
    /\ last' = IF Len(redoSt) = 0 THEN last ELSE "redo"
    /\ UNCHANGED <<snap, base>>
    /\ UNCHANGED <<size, fill>>

ModeClick ==
    /\ mode' = IF mode = PLAY THEN EDIT ELSE PLAY
    /\ last' = "controls"
    /\ UNCHANGED <<size, fill, state, turn, editMode, captured, undoSt, redoSt,
                   undoBtn, redoBtn, snap, base>>

AddpClick ==
    /\ editMode' = IF editMode = ADD THEN SUB ELSE ADD
    /\ last' = "controls"
    /\ UNCHANGED <<size, fill, state, turn, mode, captured, undoSt, redoSt,
                   undoBtn, redoBtn, snap, base>>

DisplayClick ==
    /\ turn' = IF mode = EDIT THEN (IF turn = B THEN W ELSE B) ELSE turn
    /\ last' = IF mode = EDIT THEN "controls" ELSE last
    /\ UNCHANGED <<size, fill, state, mode, editMode, captured, undoSt, redoSt,
                   undoBtn, redoBtn, snap, base>>

\* the "+b" and "+w" buttons
PlusClick(pl) ==
    /\ captured' = [captured EXCEPT ![pl] = @ + 1]
    /\ last' = "controls"
    /\ snap' = [state |-> state, captured |-> captured']
    /\ UNCHANGED <<size, fill, state, turn, mode, editMode, undoSt, redoSt,
                   undoBtn, redoBtn, base>>

\* the "-b" and "-w" buttons
MinusClick(pl) ==
    /\ captured' = IF captured[pl] > 0 THEN [captured EXCEPT ![pl] = @ - 1]
                   ELSE captured
    /\ last' = IF captured[pl] > 0 THEN "controls" ELSE last
    /\ snap' = IF captured[pl] > 0 THEN [state |-> state, captured |-> captured']
               ELSE snap
    /\ UNCHANGED <<size, fill, state, turn, mode, editMode, undoSt, redoSt,
                   undoBtn, redoBtn, base>>

\* The part of the state space Spec explores.
Bounded ==
    /\ Len(undoSt') <= MaxHist
    /\ Stones(state') <= MaxStones
    /\ \A pl \in Players : captured'[pl] <= MaxTally

Next ==
    \/ \E p \in Clicks : PlayClick(p) /\ Bounded
    \/ \E p \in Clicks : EditClick(p) /\ Bounded
    \/ UndoClick
    \/ RedoClick
    \/ ModeClick
    \/ AddpClick
    \/ DisplayClick
    \/ \E pl \in Players : PlusClick(pl) /\ Bounded
    \/ \E pl \in Players : MinusClick(pl)

Spec == Init /\ [][Next]_vars

\* Play only: canvas clicks in play mode, undo and redo, from the empty board.
NextPlay ==
    \/ \E p \in Clicks : PlayClick(p) /\ Len(undoSt') <= MaxPlayHist
    \/ UndoClick
    \/ RedoClick

SpecPlay == Init /\ [][NextPlay]_vars

\* Cells a position is set up on before play: the corner triangle.
SetupCells == {p \in Points : p.x + p.y <= SetupSpan}
SetupBoards ==
    {s \in [0..(Size * Size - 1) -> {B, W, Null}] :
        \A p \in Points \ SetupCells : s[(p.y - 1) * Size + (p.x - 1)] = Null}

\* Play from a position set up in edit mode: any stones on the setup cells,
\* either player to move, the history cleared by the last edit, back in play
\* mode.
InitSetup ==
    /\ size = Size
    /\ state \in SetupBoards
    /\ turn \in Players
    /\ mode = PLAY
    /\ editMode = ADD
    /\ captured = [pl \in Players |-> 0]
    /\ undoSt = <<>>
    /\ redoSt = <<>>
    /\ undoBtn = FALSE
    /\ redoBtn = FALSE
    /\ last = "edit"
    /\ snap = [state |-> state, captured |-> captured]
    /\ base = state
    /\ fill = FillIdle

NextSetup ==
    \/ \E p \in Clicks : PlayClick(p) /\ Len(undoSt') <= MaxSetupHist
    \/ UndoClick
    \/ RedoClick

SpecSetup == InitSetup /\ [][NextSetup]_vars


\* Play and free edits, without the manual tally buttons.
NextEdit ==
    \/ \E p \in Clicks : PlayClick(p) /\ Len(undoSt') <= MaxEditHist
                                      /\ Stones(state') <= MaxEditStones
                                      /\ \A pl \in Players : captured'[pl] <= MaxEditTally
    \/ \E p \in Clicks : EditClick(p) /\ Stones(state') <= MaxEditStones
    \/ UndoClick
    \/ RedoClick
    \/ ModeClick
    \/ AddpClick
    \/ DisplayClick

SpecEdit == Init /\ [][NextEdit]_vars

\* Play in one corner of the board, with the manual tally buttons.
CornerClicks == {p \in Clicks : p.x + p.y <= CountSpan}

NextCount ==
    \/ \E p \in CornerClicks : PlayClick(p) /\ Len(undoSt') <= MaxCountHist
    \/ UndoClick
    \/ RedoClick
    \/ \E pl \in Players : PlusClick(pl) /\ captured'[B] + captured'[W] <= MaxCount
    \/ \E pl \in Players : MinusClick(pl)

SpecCount == Init /\ [][NextCount]_vars

\* The Board alone: a board of any size up to MaxBoardSize as constructed,
\* written by set() at the positions on it and one step around it.
Around == {Point(x, y) : x \in 0..(size + 1), y \in 0..(size + 1)}

InitBoard ==
    /\ size \in 1..MaxBoardSize
    /\ state = [i \in 0..(size * size - 1) |-> Null]
    /\ turn = B
    /\ mode = PLAY
    /\ editMode = ADD
    /\ captured = [pl \in Players |-> 0]
    /\ undoSt = <<>>
    /\ redoSt = <<>>
    /\ undoBtn = FALSE
    /\ redoBtn = FALSE
    /\ last = "new"
    /\ snap = [state |-> state, captured |-> captured]
    /\ base = state
    /\ fill = FillIdle

\* board.set(p, val)
BoardSet(p, val) ==
    /\ state' = set(state, p, val)
    /\ UNCHANGED <<size, fill, turn, mode, editMode, captured, undoSt, redoSt,
                   undoBtn, redoBtn, last, snap, base>>

NextBoard ==
    \E p \in Around, val \in {B, W, Null} :
        BoardSet(p, val) /\ Stones(state') <= MaxBoardStones

SpecBoard == InitBoard /\ [][NextBoard]_vars

\* noLibs() alone, one loop iteration at a time, on any board of Size.
FillBoards == [0..(Size * Size - 1) -> {B, W, Null}]

InitFill ==
    /\ size = Size
    /\ state \in FillBoards
    /\ turn = B
    /\ mode = PLAY
    /\ editMode = ADD
    /\ captured = [pl \in Players |-> 0]
    /\ undoSt = <<>>
    /\ redoSt = <<>>
    /\ undoBtn = FALSE
    /\ redoBtn = FALSE
    /\ last = "new"
    /\ snap = [state |-> state, captured |-> captured]
    /\ base = state
    /\ fill = FillIdle

Still == <<size, state, turn, mode, editMode, captured, undoSt, redoSt,
           undoBtn, redoBtn, last, snap, base>>

\* board.noLibs(p) is entered
NoLibsCall(p) ==
    /\ fill.pc = "idle"
    /\ fill' = [pc |-> "loop", p |-> p, player |-> get(state, p), stack |-> <<p>>,
                visited |-> {}, conn |-> <<>>, ret |-> <<>>]
    /\ UNCHANGED Still

\* one pass of its loop
NoLibsStep ==
    /\ fill.pc = "loop"
    /\ fill' = noLibsStep(state, fill)
    /\ UNCHANGED Still

\* the caller takes the result
NoLibsReturn ==
    /\ fill.pc = "done"
    /\ fill' = FillIdle
    /\ UNCHANGED Still

NextFill ==
    \/ \E p \in Points : NoLibsCall(p)
    \/ NoLibsStep
    \/ NoLibsReturn

SpecFill == InitFill /\ [][NextFill]_vars

\* The same on the boards with few empty positions, where the calls are the
\* longest; the loop keeps running until it leaves, as the engine runs a
\* handler to its end.
InitFillFair ==
    /\ InitFill
    /\ Cardinality({i \in DOMAIN state : state[i] = Null}) <= MaxFairEmpty

SpecFillFair == InitFillFair /\ [][NextFill]_vars /\ WF_vars(NoLibsStep)

(***************************************************************************)
(* Reference notions of the rules, stated on sets of positions.            *)
(***************************************************************************)
Adjacent(p) ==
    {q \in {Point(p.x, p.y - 1), Point(p.x - 1, p.y), Point(p.x, p.y + 1),
            Point(p.x + 1, p.y)} : q \in Points}

RECURSIVE Grow(_, _, _)
Grow(s, colour, G) ==
    LET N == G \cup {q \in UNION {Adjacent(r) : r \in G} : get(s, q) = colour}
    IN  IF N = G THEN G ELSE Grow(s, colour, N)

\* The maximal orthogonally connected same-player group containing p.
Group(s, p) == Grow(s, get(s, p), {p})

\* The empty positions adjacent to a set of positions.
Liberties(s, G) == {q \in UNION {Adjacent(r) : r \in G} : get(s, q) = Null}

\* The opposing stones a stone standing at p removes: the opposing groups
\* next to p that have no liberty.
Removed(s, p) ==
    UNION {Group(s, q) : q \in {q \in Adjacent(p) :
                /\ get(s, q) = Other(get(s, p))
                /\ Liberties(s, Group(s, q)) = {}}}

Range(sq) == {sq[k] : k \in 1..Len(sq)}

\* The board after the records of a stack are applied in order to board b.
RECURSIVE Replay(_, _)
Replay(b, sq) ==
    IF Len(sq) = 0 THEN b
    ELSE LET mv == sq[1]
         IN  Replay([i \in DOMAIN b |->
                        IF i \in {Index(c) : c \in Range(mv.captured)} THEN Null
                        ELSE IF i = Index(mv.p) THEN mv.player
                        ELSE b[i]],
                    SubSeq(sq, 2, Len(sq)))

\* The fields of the game the claims speak of.
Core(g) == <<g.state, g.captured, g.turn, g.undoSt, g.redoSt>>


(***************************************************************************)
(* The claims.                                                             *)
(***************************************************************************)

\* C1: from the empty board, whenever undo() has emptied the undo stack the
\* board is empty again, and whenever redo() has emptied the redo stack the
\* board and both capture tallies are those that held before the first undo.
C1_RoundTrip ==
    /\ Len(undoSt) = 0 => state = EmptyBoard
    /\ (last = "redo" /\ Len(redoSt) = 0) =>
            state = snap.state /\ captured = snap.captured

\* Three moves or more, one of them a capture, undone and redone to the end.
C1_Witness ==
    /\ last = "redo"
    /\ Len(redoSt) = 0
    /\ Len(undoSt) >= 3
    /\ \E k \in 1..Len(undoSt) : Len(undoSt[k].captured) > 0


\* The empty board positions: the targets a play click can be accepted on.
Empties == {p \in Points : get(state, p) = Null}

\* The board with the player to move's stone placed at p.
Placed(p) == set(state, p, turn)

\* C2: a play-mode click that is rejected (occupied or out of bounds, suicide,
\* ko) leaves the board, the undo stack, the redo stack, both tallies and the
\* turn as they were.
C2_RejectedUnchanged ==
    \A p \in Clicks :
        LET r == playClick(Game, p)
        IN  r.out # "accepted" => Core(r.g) = Core(Game)

\* After a capture: one click is rejected by ko, others on a stone and off
\* the board.
C2_Witness ==
    /\ Len(undoSt) > 0
    /\ captured[Other(turn)] > 0
    /\ \E p \in Clicks : playClick(Game, p).out = "ko"
    /\ \E p \in Points : playClick(Game, p).out = "occupied"
    /\ \E p \in Clicks \ Points : playClick(Game, p).out = "occupied"

\* The ko rule as the four conditions on sets of stones.
KoRule(p) ==
    /\ Len(undoSt) > 0
    /\ LET lm == undoSt[Len(undoSt)]
           removed == Removed(Placed(p), p)
       IN  /\ Cardinality(Range(lm.captured)) = 1
           /\ p \in Range(lm.captured)
           /\ Cardinality(removed) = 1
           /\ lm.p \in removed

C4_SuicideExactly ==
    \A p \in Empties :
        (playClick(Game, p).out = "suicide") <=>
            /\ Liberties(Placed(p), Group(Placed(p), p)) = {}
            /\ Removed(Placed(p), p) = {}

\* One click is rejected as suicide, and another that fills its own last
\* liberty while capturing is accepted.
C4_Witness ==
    /\ \E p \in Empties : playClick(Game, p).out = "suicide"
    /\ \E p \in Empties :
          /\ playClick(Game, p).out = "accepted"
          /\ Liberties(Placed(p), Group(Placed(p), p)) = {}
          /\ Removed(Placed(p), p) # {}

\* C5: after an accepted move at p the positions that became empty are the
\* opposing groups next to p without a liberty, p holds the mover's stone and
\* every other position is as before.
C5_CaptureExactly ==
    \A p \in Empties :
        LET r == playClick(Game, p)
            removed == Removed(Placed(p), p)
        IN  r.out = "accepted" =>
              /\ {q \in Points : get(state, q) # Null /\ get(r.g.state, q) = Null}
                    = removed
              /\ get(r.g.state, p) = turn
              /\ \A q \in Points \ (removed \cup {p}) :
                    get(r.g.state, q) = get(state, q)

\* An accepted move has just removed stones on more than one side of it.
C5_Witness ==
    /\ last = "accepted"
    /\ Len(undoSt) > 0
    /\ LET mv == undoSt[Len(undoSt)]
       IN  /\ Cardinality(Range(mv.captured)) >= 2
           /\ \A c \in Range(mv.captured) : get(state, c) = Null
           /\ get(state, mv.p) = mv.player

\* C6: an accepted move raises the mover's tally by the number of stones it
\* removes from the board and leaves the other tally alone.
C6_TallyCountsStones ==
    \A p \in Empties :
        LET r == playClick(Game, p)
        IN  r.out = "accepted" =>
              /\ r.g.captured[turn] =
                    captured[turn] + Cardinality(Removed(Placed(p), p))
              /\ r.g.captured[Other(turn)] = captured[Other(turn)]

\* C7: a move accepted while the redo stack held undone moves leaves the redo
\* stack empty, and a redo() right after it changes nothing.
C7_NewMoveClearsRedo ==
    last = "branched" => (Len(redoSt) = 0 /\ Core(redo(Game)) = Core(Game))

\* A move has just been accepted while undone moves were on the redo stack.
C7_Witness ==
    /\ last = "branched"
    /\ Len(undoSt) >= 2
    /\ Len(redoSt) = 0


C9_UndoHandsTurnBack ==
    last = "undo" => turn = redoSt[Len(redoSt)].player

\* C10: undo() on an empty undo stack and redo() on an empty redo stack leave
\* the board, both tallies, the turn and both stacks unchanged.
C10_EmptyStackNoOps ==
    /\ Len(undoSt) = 0 => Core(undo(Game)) = Core(Game)
    /\ Len(redoSt) = 0 => Core(redo(Game)) = Core(Game)

\* Every move has just been undone: one more undo() has nothing to revert.
C10_Witness ==
    /\ last = "undo"
    /\ Len(undoSt) = 0
    /\ Len(redoSt) > 0

\* C11: a play-mode click is accepted only on a position inside the board that
\* is empty before the click, and the move recorded is a move at that position
\* by the player to move; a click on a stone or off the board is never
\* accepted.
C11_AcceptedOnEmptyInside ==
    \A p \in Clicks :
        LET r == playClick(Game, p)
        IN  r.out = "accepted" =>
              /\ p \in Points
              /\ state[(p.y - 1) * Size + (p.x - 1)] = Null
              /\ r.g.undoSt = Append(undoSt, r.g.undoSt[Len(r.g.undoSt)])
              /\ r.g.undoSt[Len(r.g.undoSt)].p = p
              /\ r.g.undoSt[Len(r.g.undoSt)].player = turn

\* After an accepted move: a click on its stone and a click off the board are
\* turned down while a click on an empty position is accepted.
C11_Witness ==
    /\ last = "accepted"
    /\ Len(undoSt) > 0
    /\ playClick(Game, undoSt[Len(undoSt)].p).out = "occupied"
    /\ \A p \in Clicks \ Points : playClick(Game, p).out = "occupied"
    /\ \E p \in Points : playClick(Game, p).out = "accepted"


\* C12: on a board of any size, for a position with x or y outside 1..size
\* get() gives undefined, set() gives undefined and leaves the grid as it is;
\* for a position inside, set() gives the value written, a get() after it
\* gives that value, and every other cell of the grid is as before.
C12_GetSetBounds ==
    \A p \in Around, val \in {B, W, Null} :
        LET s2 == set(state, p, val)
        IN  IF p.x \in 1..size /\ p.y \in 1..size
            THEN /\ setValue(p, val) = val
                 /\ get(s2, p) = val
                 /\ DOMAIN s2 = DOMAIN state
                 /\ \A i \in DOMAIN state :
                        i # (p.y - 1) * size + (p.x - 1) => s2[i] = state[i]
                 /\ \A q \in Around \ {p} : get(s2, q) = get(state, q)
            ELSE /\ get(state, p) = Undefined
                 /\ setValue(p, val) = Undefined
                 /\ s2 = state

\* A board larger than one cell on which set() has put a stone of each player.
C12_Witness ==
    /\ size > 1
    /\ \E p, q \in Around : get(state, p) = B /\ get(state, q) = W


\* C13: a noLibs(p) call on an occupied position p returns the empty list if
\* the maximal connected same-player group of p has an empty position next to
\* it, and otherwise the positions of that group, each once; the list is the
\* one the handlers compute.
C13_NoLibsIsGroup ==
    (fill.pc = "done" /\ get(state, fill.p) \in Players) =>
        LET G == Group(state, fill.p)
        IN  /\ fill.ret = noLibs(state, fill.p)
            /\ IF Liberties(state, G) # {}
               THEN fill.ret = <<>>
               ELSE Range(fill.ret) = G /\ Len(fill.ret) = Cardinality(G)

\* A call has returned a group of four or more stones that closes a ring,
\* on a board that has an empty position elsewhere.
C13_Witness ==
    /\ fill.pc = "done"
    /\ get(state, fill.p) \in Players
    /\ Len(fill.ret) >= 4
    /\ \E q \in Points :
          {q, Point(q.x + 1, q.y), Point(q.x, q.y + 1), Point(q.x + 1, q.y + 1)}
              \subseteq Range(fill.ret)
    /\ \E q \in Points : get(state, q) = Null


\* C14: with a move to undo, undo() followed at once by redo() gives back the
\* board, both tallies, the turn and both stacks; with a move to redo, so does
\* redo() followed at once by undo().
C14_UndoRedoInverse ==
    /\ Len(undoSt) > 0 => Core(redo(undo(Game))) = Core(Game)
    /\ Len(redoSt) > 0 => Core(undo(redo(Game))) = Core(Game)

\* A capture whose record lists a stone twice has been undone and redone.
C14_Witness ==
    /\ last = "redo"
    /\ Len(undoSt) > 0
    /\ LET mv == undoSt[Len(undoSt)]
       IN  Len(mv.captured) > Cardinality(Range(mv.captured))


\* The board as it was before the move on top of the undo stack was applied.
PriorBoard == Replay(base, SubSeq(undoSt, 1, Len(undoSt) - 1))

\* The board a stone of the player to move at p would leave once the opposing
\* groups it takes the last liberty of are removed.
Resulting(p) ==
    [i \in DOMAIN state |->
        IF i \in {Index(q) : q \in Removed(Placed(p), p)} THEN Null
        ELSE Placed(p)[i]]

\* C15: with a move on the undo stack, no click is accepted that leaves the
\* board as it was before that move was applied, which is also the board
\* undo() would restore.
C15_NoTwoPlyRepeat ==
    Len(undoSt) > 0 =>
        /\ PriorBoard = undo(Game).state
        /\ \A p \in Clicks :
              LET r == playClick(Game, p)
              IN  r.out = "accepted" => r.g.state # PriorBoard

\* A recapture that would bring back the board of two plies earlier is turned
\* down while another click is accepted.
C15_Witness ==
    /\ last = "accepted"
    /\ Len(undoSt) > 0
    /\ \E p \in Empties :
          /\ Resulting(p) = PriorBoard
          /\ playClick(Game, p).out # "accepted"
    /\ \E p \in Empties : playClick(Game, p).out = "accepted"


\* Every group of stones on board s has an empty position next to it.
AllAlive(s) ==
    \A p \in Points : get(s, p) \in Players => Liberties(s, Group(s, p)) # {}

\* C16: from the empty board, after any play-mode clicks, undo() and redo(),
\* every group on the board has a liberty, and it still has after one more
\* click anywhere.
C16_EveryGroupHasLiberty ==
    /\ AllAlive(state)
    /\ \A p \in Clicks :
          LET s == playClick(Game, p).g.state
          IN  s # state => AllAlive(s)

\* After four moves a click that fills the last liberty of its own group is
\* accepted because it captures.
C16_Witness ==
    /\ Len(undoSt) >= 4
    /\ \E p \in Empties :
          /\ playClick(Game, p).out = "accepted"
          /\ Liberties(Placed(p), Group(Placed(p), p)) = {}


\* C17: right after a free edit both stacks are empty; and from any state in
\* edit mode, a click on the canvas leaves both stacks empty, so that undo()
\* and redo() after it change nothing.
C17_EditClearsHistory ==
    /\ last = "edit" => (Len(undoSt) = 0 /\ Len(redoSt) = 0)
    /\ mode = EDIT =>
          \A p \in Clicks :
              LET g == editClick(Game, p)
              IN  /\ Len(g.undoSt) = 0
                  /\ Len(g.redoSt) = 0
                  /\ Core(undo(g)) = Core(g)
                  /\ Core(redo(g)) = Core(g)

\* In edit mode, set to erase, with a move on each stack and the stone of the
\* last move on the board for the next click to take away.
C17_Witness ==
    /\ mode = EDIT
    /\ editMode = SUB
    /\ Len(undoSt) > 0
    /\ Len(redoSt) > 0
    /\ get(state, undoSt[Len(undoSt)].p) \in Players


\* C19: with both buttons off at the start, in every state the undo button is
\* on exactly when the undo stack holds a move and the redo button is on
\* exactly when the redo stack holds a move.
C19_ButtonsFollowStacks ==
    /\ undoBtn <=> Len(undoSt) > 0
    /\ redoBtn <=> Len(redoSt) > 0

\* An undo() has left a move on each stack, with both buttons on.
C19_Witness ==
    /\ last = "undo"
    /\ Len(undoSt) > 0
    /\ Len(redoSt) > 0
    /\ undoBtn
    /\ redoBtn


\* C18: in every state both capture tallies are zero or more.
C18_TalliesNonNegative == \A pl \in Players : captured[pl] >= 0


\* No position has been marked visited and collected twice by the call in
\* progress, and the marks are the positions collected.
MarkedOnce ==
    /\ \A j, k \in 1..Len(fill.conn) : j # k => fill.conn[j] # fill.conn[k]
    /\ fill.visited = {Index(c) : c \in Range(fill.conn)}

\* C20: on every board and from every start position a noLibs() call marks no
\* position twice, and once entered its loop is left.
C20_FillTerminates ==
    /\ []MarkedOnce
    /\ (fill.pc = "loop") ~> (fill.pc = "done")

\* A call has gone through the whole board, every position marked.
C20_Witness ==
    /\ fill.pc = "done"
    /\ Len(fill.ret) = Size * Size
    /\ Cardinality(fill.visited) = Size * Size


=============================================================================
